---- MODULE Spec2Model ----
(***************************************************************************)
(* Bulk-order pricing and settlement engine of the marketplace backend:    *)
(* order admission (create_order), pay-later settlement                    *)
(* (pay_pending_order), the bulk-window sweep (process_bulk_windows),      *)
(* balance top-up (create_payment_order / verify_payment) and deletion of  *)
(* pricing tiers (delete_pricing_tier).                                    *)
(*                                                                         *)
(* Every request handler runs in its own SQLAlchemy AsyncSession on a      *)
(* PostgreSQL connection with the default isolation level (READ            *)
(* COMMITTED, config.py sets none).  A handler is therefore modelled as a  *)
(* process that                                                            *)
(*   - reads committed rows into its session (each row once: the identity  *)
(*     map keeps the first value loaded),                                  *)
(*   - changes the loaded objects in memory,                               *)
(*   - and at db.commit() writes, for every changed attribute, the         *)
(*     attribute's new ABSOLUTE value (the ORM emits                       *)
(*     UPDATE ... SET balance = <value>, not balance = balance - x).       *)
(* Amounts are integers (the code uses floats; rounding is not modelled).  *)
(***************************************************************************)
EXTENDS Integers, Sequences, FiniteSets, TLC

\* ------------------------------------------------------------------ bounds
MaxOrders == 2
MaxWindows == 2
MaxConcWindows == 1
MaxPayments == 1
MaxNow == 2
MaxPayPayments == 2
MaxTierQty == 6
MaxTierPrice == 2
MaxTierCount == 3
MaxAdmitOrders == 1

\* ------------------------------------------------------- program constants
PayLaterMinRating == 45
PayLaterDueHours == 120

\* ------------------------------------------------------------- fixed data
Procs == {1, 2}
Vendors == {1, 2}
NoProfileUser == 3
Users == Vendors \cup {NoProfileUser}
Products == {1, 2}
QtyChoices == {1, 2}
DurationChoices == {1}
AmountChoices == {2}
PayAmountChoices == {1, 2}
OrderTypes == {"buy_now", "buy_now_pay_later", "bulk_order"}

NoWindow == 0
NoMax == 0
NotLoaded == -1
Unset == -2

InitBalance == (1 :> 5) @@ (2 :> 3)
average_rating == (1 :> 45) @@ (2 :> 42)
is_active == (1 :> TRUE) @@ (2 :> TRUE)
product_is_active == (1 :> TRUE) @@ (2 :> TRUE)
minimum_order_quantity == (1 :> 1) @@ (2 :> 2)

Tier(mn, mx, pr) == [min_quantity |-> mn, max_quantity |-> mx, price_per_unit |-> pr]

InitTiers == (1 :> {Tier(1, 2, 3), Tier(3, NoMax, 2)}) @@
             (2 :> {Tier(1, 2, 2), Tier(3, NoMax, 1)})

\* -------------------------------------------------------------- utilities
RECURSIVE SeqSum(_)
SeqSum(s) == IF s = << >> THEN 0 ELSE Head(s) + SeqSum(Tail(s))

Range(s) == {s[i] : i \in DOMAIN s}

\* all orderings of a finite set, as sequences without repetition
Perms(S) == {s \in [1..Cardinality(S) -> S] : Range(s) = S}

\* ------------------------------------------------ pricing tier resolution
\* sorted(bulk_pricing_tiers, key=lambda x: x.min_quantity)
RECURSIVE SortedTiers(_)
SortedTiers(ts) ==
    IF ts = {} THEN << >>
    ELSE LET t == CHOOSE x \in ts : \A y \in ts : x.min_quantity <= y.min_quantity
         IN  <<t>> \o SortedTiers(ts \ {t})

\* the for loop of calculate_price_for_quantity: walks the sorted tiers,
\* remembers the last tier whose range contains the quantity and stops at
\* the first tier whose min_quantity exceeds it.  acc is << >> for None.
RECURSIVE TierWalk(_, _, _)
TierWalk(sorted, quantity, acc) ==
    IF sorted = << >> THEN acc
    ELSE LET tier == Head(sorted) IN
         IF quantity >= tier.min_quantity
         THEN IF tier.max_quantity = NoMax \/ quantity <= tier.max_quantity
              THEN TierWalk(Tail(sorted), quantity, <<tier>>)
              ELSE TierWalk(Tail(sorted), quantity, acc)
         ELSE acc

\* mutant of calculate_price_for_quantity: when no tier's range contains the
\* quantity the fallback is the tier with the largest min_quantity
calculate_price_for_quantity_FallbackLast(ts, quantity) ==
    LET sorted_tiers == SortedTiers(ts)
        applicable == TierWalk(sorted_tiers, quantity, << >>)
    IN  IF applicable = << >> THEN sorted_tiers[Len(sorted_tiers)].price_per_unit
        ELSE applicable[1].price_per_unit

\* defined only for a non-empty tier set (the code raises otherwise)
calculate_price_for_quantity(ts, quantity) ==
    LET sorted_tiers == SortedTiers(ts)
        applicable == TierWalk(sorted_tiers, quantity, << >>)
    IN  IF applicable = << >> THEN sorted_tiers[1].price_per_unit
        ELSE applicable[1].price_per_unit

\* mutant of check_vendor_eligibility_for_pay_later: the rating has to exceed
\* the minimum
check_vendor_eligibility_for_pay_later_Above(v) == average_rating[v] > PayLaterMinRating

check_vendor_eligibility_for_pay_later(v) == average_rating[v] >= PayLaterMinRating

\* ------------------------------------------------ pricing tiers of a product
\* BulkPricingTierCreate and the table's check constraints: min_quantity > 0,
\* max_quantity > min_quantity or NULL, price_per_unit > 0
TierUniverse ==
    {t \in [min_quantity : 1..MaxTierQty, max_quantity : {NoMax} \cup 1..MaxTierQty,
            price_per_unit : 1..MaxTierPrice] :
        t.max_quantity = NoMax \/ t.max_quantity > t.min_quantity}

\* ProductCreate.validate_pricing_tiers: at least one tier, and in the order
\* of min_quantity no bounded tier reaches the min_quantity of its successor;
\* the unique constraint allows one tier per (product, min_quantity)
validate_pricing_tiers(v) ==
    /\ v # {}
    /\ \A t1, t2 \in v : t1 # t2 => t1.min_quantity # t2.min_quantity
    /\ LET sorted_tiers == SortedTiers(v)
       IN  \A i \in 1..(Len(sorted_tiers) - 1) :
              ~(/\ sorted_tiers[i].max_quantity # NoMax
                /\ sorted_tiers[i].max_quantity >= sorted_tiers[i + 1].min_quantity)

\* the tier lists create_product accepts, of up to MaxTierCount tiers
TierLists ==
    {v \in {{t1, t2, t3} : t1 \in TierUniverse, t2 \in TierUniverse, t3 \in TierUniverse} :
        Cardinality(v) <= MaxTierCount /\ validate_pricing_tiers(v)}

\* the quantities an order can ask for: up to one above every tier bound
ResolveQtyChoices == 1..(MaxTierQty + 1)

\* ------------------------------------------------------------------ state
VARIABLES
    balance,    \* VendorProfile.balance, committed
    orders,     \* committed Order rows, in insertion order
    windows,    \* committed BulkOrderWindow rows, in insertion order
    tiers,      \* committed BulkPricingTier rows per product
    payments,   \* committed Payment rows, in insertion order
    now,        \* datetime.utcnow(), in hours
    pc,         \* per request handler: where it stands
    sess,       \* per request handler: its session (loaded and changed rows)
    after_sweep, \* history of sweep runs: "first" while a sweep runs on a
                \* state nothing else has changed since it started, "swept"
                \* once it has committed and nothing has changed since,
                \* "second" while the next sweep runs on that state, "none"
                \* otherwise
    refused     \* per request handler: the detail of the HTTPException with
                \* which it last refused a request before changing anything
                \* ("none" before the first)

vars == <<balance, orders, windows, tiers, payments, now, pc, sess, after_sweep, refused>>

NoSession == [h |-> "none"]

Init ==
    /\ balance = InitBalance
    /\ orders = << >>
    /\ windows = << >>
    /\ tiers = InitTiers
    /\ payments = << >>
    /\ now = 0
    /\ pc = [p \in Procs |-> "idle"]
    /\ sess = [p \in Procs |-> NoSession]
    /\ after_sweep = "none"
    /\ refused = [p \in Procs |-> "none"]

\* orders committed or about to be (bounds the table)
OrdersInFlight == Len(orders) + Cardinality({p \in Procs : pc[p] = "create_order_commit"})

Finish(p) ==
    /\ pc' = [pc EXCEPT ![p] = "idle"]
    /\ sess' = [sess EXCEPT ![p] = NoSession]

\* ------------------------------------------------------------------ clock
Tick ==
    /\ now < MaxNow
    /\ now' = now + 1
    /\ after_sweep' = "none"
    /\ UNCHANGED <<balance, orders, windows, tiers, payments, pc, sess, refused>>

\* mutant of InsufficientBalance: a balance equal to the total is refused
InsufficientBalance_Inclusive(buyer, total_amount) == balance[buyer] <= total_amount

\* if vendor_profile.balance < total_amount
InsufficientBalance(buyer, total_amount) == balance[buyer] < total_amount

\* mutant of CreateOrderError: the minimum order quantity is checked last,
\* after the price, eligibility, balance and window checks
CreateOrderError_MinimumLast(buyer, product, quantity, order_type, window_id) ==
    IF ~is_active[buyer] THEN "Your account is suspended. Please contact support."
    ELSE IF ~product_is_active[product] THEN "Product is not available"
    ELSE IF tiers[product] = {} THEN "No pricing information available for this product"
    ELSE LET price_per_unit == calculate_price_for_quantity(tiers[product], quantity)
             total_amount == price_per_unit * quantity
         IN  IF order_type = "buy_now_pay_later" /\ ~check_vendor_eligibility_for_pay_later(buyer)
             THEN "Buy now, pay later requires a minimum rating of 4.5"
             ELSE IF order_type = "buy_now" /\ InsufficientBalance(buyer, total_amount)
             THEN "Insufficient balance"
             ELSE IF window_id # NoWindow /\ window_id \notin DOMAIN windows
             THEN "Bulk order window not found"
             ELSE IF window_id # NoWindow /\ windows[window_id].status # "open"
             THEN "Bulk order window is no longer open"
             ELSE IF window_id # NoWindow /\ now > windows[window_id].window_end_time
             THEN "Bulk order window has expired"
             ELSE IF quantity < minimum_order_quantity[product] THEN "Minimum order quantity"
             ELSE "none"

\* the checks of create_order in the order the handler makes them: the detail
\* of the first HTTPException raised, "none" when the order is admitted
CreateOrderError(buyer, product, quantity, order_type, window_id) ==
    IF ~is_active[buyer] THEN "Your account is suspended. Please contact support."
    ELSE IF ~product_is_active[product] THEN "Product is not available"
    ELSE IF quantity < minimum_order_quantity[product] THEN "Minimum order quantity"
    ELSE IF tiers[product] = {} THEN "No pricing information available for this product"
    ELSE LET price_per_unit == calculate_price_for_quantity(tiers[product], quantity)
             total_amount == price_per_unit * quantity
         IN  IF order_type = "buy_now_pay_later" /\ ~check_vendor_eligibility_for_pay_later(buyer)
             THEN "Buy now, pay later requires a minimum rating of 4.5"
             ELSE IF order_type = "buy_now" /\ InsufficientBalance(buyer, total_amount)
             THEN "Insufficient balance"
             ELSE IF window_id # NoWindow /\ window_id \notin DOMAIN windows
             THEN "Bulk order window not found"
             ELSE IF window_id # NoWindow /\ windows[window_id].status # "open"
             THEN "Bulk order window is no longer open"
             ELSE IF window_id # NoWindow /\ now > windows[window_id].window_end_time
             THEN "Bulk order window has expired"
             ELSE "none"

\* a request that create_order refuses: the HTTPException leaves the handler
\* before anything was added to the session
CreateOrderRefuse(p, buyer, product, quantity, order_type, window_id) ==
    /\ pc[p] = "idle"
    /\ CreateOrderError(buyer, product, quantity, order_type, window_id) # "none"
    /\ refused' = [refused EXCEPT ![p] =
                      CreateOrderError(buyer, product, quantity, order_type, window_id)]
    /\ UNCHANGED <<balance, orders, windows, tiers, payments, now, pc, sess, after_sweep>>

\* mutant of CreateOrderRead: the order keeps the requested order_type when it
\* names a bulk order window
CreateOrderRead_KeepsRequestedType(p, buyer, product, quantity, order_type, window_id) ==
    /\ pc[p] = "idle"
    /\ is_active[buyer]
    /\ product_is_active[product]
    /\ quantity >= minimum_order_quantity[product]
    /\ tiers[product] # {}
    /\ LET price_per_unit == calculate_price_for_quantity(tiers[product], quantity)
           total_amount == price_per_unit * quantity
       IN  /\ order_type = "buy_now_pay_later" => check_vendor_eligibility_for_pay_later(buyer)
           /\ order_type = "buy_now" => balance[buyer] >= total_amount
           /\ window_id # NoWindow =>
                 /\ window_id \in DOMAIN windows
                 /\ windows[window_id].status = "open"
                 /\ ~(now > windows[window_id].window_end_time)
           /\ sess' = [sess EXCEPT ![p] =
                 [h |-> "create_order",
                  loaded_balance |-> balance[buyer],
                  order |-> [buyer_id |-> buyer,
                             product_id |-> product,
                             quantity |-> quantity,
                             price_per_unit |-> price_per_unit,
                             total_amount |-> total_amount,
                             order_type |-> order_type,
                             payment_status |-> "pending",
                             due_date |-> IF order_type = "buy_now_pay_later"
                                          THEN now + PayLaterDueHours ELSE 0,
                             bulk_order_window_id |-> window_id]]]
    /\ pc' = [pc EXCEPT ![p] = "create_order_commit"]
    /\ UNCHANGED <<balance, orders, windows, tiers, payments, now, after_sweep, refused>>

\* ------------------------------------------------------------ create_order
\* The reads of create_order (buyer, vendor, product, tiers, window) and its
\* checks; the session keeps the vendor row as loaded here.
CreateOrderRead(p, buyer, product, quantity, order_type, window_id) ==
    /\ pc[p] = "idle"
    /\ is_active[buyer]
    /\ product_is_active[product]
    /\ quantity >= minimum_order_quantity[product]
    /\ tiers[product] # {}
    /\ LET price_per_unit == calculate_price_for_quantity(tiers[product], quantity)
           total_amount == price_per_unit * quantity
       IN  /\ order_type = "buy_now_pay_later" => check_vendor_eligibility_for_pay_later(buyer)
           /\ order_type = "buy_now" => balance[buyer] >= total_amount
           /\ window_id # NoWindow =>
                 /\ window_id \in DOMAIN windows
                 /\ windows[window_id].status = "open"
                 /\ ~(now > windows[window_id].window_end_time)
           /\ sess' = [sess EXCEPT ![p] =
                 [h |-> "create_order",
                  loaded_balance |-> balance[buyer],
                  order |-> [buyer_id |-> buyer,
                             product_id |-> product,
                             quantity |-> quantity,
                             price_per_unit |-> price_per_unit,
                             total_amount |-> total_amount,
                             order_type |-> IF window_id # NoWindow THEN "bulk_order"
                                            ELSE order_type,
                             payment_status |-> "pending",
                             due_date |-> IF window_id = NoWindow /\ order_type = "buy_now_pay_later"
                                          THEN now + PayLaterDueHours ELSE 0,
                             bulk_order_window_id |-> window_id]]]
    /\ pc' = [pc EXCEPT ![p] = "create_order_commit"]
    /\ UNCHANGED <<balance, orders, windows, tiers, payments, now, after_sweep, refused>>

\* mutant of CreateOrderCommit: the debit is applied to the committed balance
\* (UPDATE ... SET balance = balance - x) without a new check
CreateOrderCommit_RelativeDebit(p) ==
    /\ pc[p] = "create_order_commit"
    /\ LET o == sess[p].order
           buy_now == o.order_type = "buy_now"
       IN  /\ orders' = Append(orders,
                 [o EXCEPT !.payment_status = IF buy_now THEN "paid" ELSE "pending"])
           /\ balance' = IF buy_now
                         THEN [balance EXCEPT ![o.buyer_id] = @ - o.total_amount]
                         ELSE balance
    /\ Finish(p)
    /\ after_sweep' = "none"
    /\ UNCHANGED <<windows, tiers, payments, now, refused>>

\* db.add(order); db.commit(): inserts the order and, for buy_now, writes the
\* vendor's balance as computed from the value loaded by the session.
CreateOrderCommit(p) ==
    /\ pc[p] = "create_order_commit"
    /\ LET o == sess[p].order
           buy_now == o.order_type = "buy_now"
       IN  /\ orders' = Append(orders,
                 [o EXCEPT !.payment_status = IF buy_now THEN "paid" ELSE "pending"])
           /\ balance' = IF buy_now
                         THEN [balance EXCEPT ![o.buyer_id] = sess[p].loaded_balance - o.total_amount]
                         ELSE balance
    /\ Finish(p)
    /\ after_sweep' = "none"
    /\ UNCHANGED <<windows, tiers, payments, now, refused>>

\* mutant of CreateOrderAbort: the debit made on the session's vendor row is
\* stored although the request fails
CreateOrderAbort_KeepsDebit(p) ==
    /\ pc[p] = "create_order_commit"
    /\ LET o == sess[p].order
       IN  balance' = IF o.order_type = "buy_now"
                      THEN [balance EXCEPT ![o.buyer_id] = sess[p].loaded_balance - o.total_amount]
                      ELSE balance
    /\ Finish(p)
    /\ refused' = [refused EXCEPT ![p] = "Failed to create order"]
    /\ UNCHANGED <<orders, windows, tiers, payments, now, after_sweep>>

\* except Exception: db.rollback() and 500.  A fault between the building of
\* the order and the end of db.commit() discards the order and the debit the
\* session holds; nothing of the request is stored.
CreateOrderAbort(p) ==
    /\ pc[p] = "create_order_commit"
    /\ Finish(p)
    /\ refused' = [refused EXCEPT ![p] = "Failed to create order"]
    /\ UNCHANGED <<balance, orders, windows, tiers, payments, now, after_sweep>>

\* -------------------------------------------------- create_bulk_order_window
CreateBulkOrderWindow(creator, window_duration_hours) ==
    /\ is_active[creator]
    /\ windows' = Append(windows,
          [creator_id |-> creator,
           window_end_time |-> now + window_duration_hours,
           status |-> "open",
           total_participants |-> 0,
           total_amount |-> 0])
    /\ after_sweep' = "none"
    /\ UNCHANGED <<balance, orders, tiers, payments, now, pc, sess, refused>>

\* -------------------------------------------------------- pay_pending_order
\* The reads of pay_pending_order (vendor, then the order by id and buyer)
\* and its checks.
PayPendingRead(p, buyer, order_id) ==
    /\ pc[p] = "idle"
    /\ order_id \in DOMAIN orders
    /\ orders[order_id].buyer_id = buyer
    /\ orders[order_id].payment_status = "pending"
    /\ orders[order_id].order_type = "buy_now_pay_later"
    /\ ~(orders[order_id].due_date # 0 /\ now > orders[order_id].due_date)
    /\ balance[buyer] >= orders[order_id].total_amount
    /\ sess' = [sess EXCEPT ![p] =
          [h |-> "pay_pending_order",
           buyer |-> buyer,
           order_id |-> order_id,
           loaded_balance |-> balance[buyer],
           total_amount |-> orders[order_id].total_amount]]
    /\ pc' = [pc EXCEPT ![p] = "pay_pending_commit"]
    /\ UNCHANGED <<balance, orders, windows, tiers, payments, now, after_sweep, refused>>

PayPendingCommit(p) ==
    /\ pc[p] = "pay_pending_commit"
    /\ balance' = [balance EXCEPT ![sess[p].buyer] =
                      sess[p].loaded_balance - sess[p].total_amount]
    /\ orders' = [orders EXCEPT ![sess[p].order_id].payment_status = "paid"]
    /\ Finish(p)
    /\ after_sweep' = "none"
    /\ UNCHANGED <<windows, tiers, payments, now, refused>>

\* ------------------------------------------------------ process_bulk_windows
\* select(BulkOrderWindow).where(status == "open", window_end_time < now):
\* the rows come back in no particular order.
SweepSelect(p) ==
    /\ pc[p] = "idle"
    /\ LET selected == {w \in DOMAIN windows :
                          /\ windows[w].status = "open"
                          /\ windows[w].window_end_time < now}
       IN  \E todo \in Perms(selected) :
             sess' = [sess EXCEPT ![p] =
                [h |-> "process_bulk_windows",
                 todo |-> todo,
                 wload |-> [w \in selected |-> windows[w]],
                 wcur |-> [w \in selected |-> windows[w]],
                 oload |-> << >>,
                 ocur |-> << >>,
                 vload |-> [v \in Vendors |-> NotLoaded],
                 vcur |-> [v \in Vendors |-> NotLoaded],
                 processed_count |-> 0]]
    /\ pc' = [pc EXCEPT ![p] = "sweep_loop"]
    /\ after_sweep' = IF after_sweep = "swept" THEN "second" ELSE "first"
    /\ UNCHANGED <<balance, orders, windows, tiers, payments, now, refused>>

\* product ids of a list of orders, in order of first appearance (the keys
\* of the product_orders dict)
RECURSIVE ProductKeys(_, _, _)
ProductKeys(rows, ids, seen) ==
    IF ids = << >> THEN << >>
    ELSE LET pid == rows[Head(ids)].product_id IN
         IF pid \in seen THEN ProductKeys(rows, Tail(ids), seen)
         ELSE <<pid>> \o ProductKeys(rows, Tail(ids), seen \cup {pid})

RECURSIVE ProductOrdersList(_, _, _)
ProductOrdersList(rows, ids, pid) ==
    IF ids = << >> THEN << >>
    ELSE IF rows[Head(ids)].product_id = pid
         THEN <<Head(ids)>> \o ProductOrdersList(rows, Tail(ids), pid)
         ELSE ProductOrdersList(rows, Tail(ids), pid)

RECURSIVE TotalQuantity(_, _)
TotalQuantity(rows, ids) ==
    IF ids = << >> THEN 0
    ELSE rows[Head(ids)].quantity + TotalQuantity(rows, Tail(ids))

\* body of "for order in product_orders_list": reprice the order, load the
\* buyer's vendor row if the session has not loaded it yet, debit or fail.
SettleOrder(s, i, new_price_per_unit) ==
    LET o == s.ocur[i]
        b == o.buyer_id
        total == new_price_per_unit * o.quantity
        loaded == IF s.vload[b] = NotLoaded THEN balance[b] ELSE s.vload[b]
        bal == IF s.vload[b] = NotLoaded THEN balance[b] ELSE s.vcur[b]
        pays == bal >= total
    IN  [s EXCEPT !.vload[b] = loaded,
                  !.vcur[b] = IF pays THEN bal - total ELSE bal,
                  !.ocur[i] = [o EXCEPT !.price_per_unit = new_price_per_unit,
                                        !.total_amount = total,
                                        !.payment_status = IF pays THEN "paid" ELSE "failed"]]

\* mutant of SettleGroup: the loop ends at the first order that fails
RECURSIVE SettleGroup_StopOnFailure(_, _, _)
SettleGroup_StopOnFailure(s, ids, new_price_per_unit) ==
    IF ids = << >> THEN s
    ELSE LET s1 == SettleOrder(s, Head(ids), new_price_per_unit) IN
         IF s1.ocur[Head(ids)].payment_status = "failed" THEN s1
         ELSE SettleGroup_StopOnFailure(s1, Tail(ids), new_price_per_unit)

RECURSIVE SettleGroup(_, _, _)
SettleGroup(s, ids, new_price_per_unit) ==
    IF ids = << >> THEN s
    ELSE SettleGroup(SettleOrder(s, Head(ids), new_price_per_unit), Tail(ids),
                     new_price_per_unit)

\* mutant of GroupPrice: the tier is looked up with the quantity of the
\* group's first order instead of the group's total
GroupPrice_FirstOrderQuantity(s, pid, product_orders_list) ==
    calculate_price_for_quantity(tiers[pid], s.ocur[Head(product_orders_list)].quantity)

\* total_quantity = sum(...); new_price_per_unit = calculate_price_for_quantity(...)
GroupPrice(s, pid, product_orders_list) ==
    calculate_price_for_quantity(tiers[pid], TotalQuantity(s.ocur, product_orders_list))

\* "for product_id, product_orders_list in product_orders.items()": stops at
\* the first product without pricing tiers (calculate_price_for_quantity
\* raises, the except of the window loop catches it); what the earlier
\* groups changed stays in the session.
RECURSIVE ProcessGroups(_, _, _)
ProcessGroups(s, keys, ids) ==
    IF keys = << >> THEN [session |-> s, fault |-> FALSE]
    ELSE LET pid == Head(keys)
             product_orders_list == ProductOrdersList(s.ocur, ids, pid)
         IN  IF tiers[pid] = {} THEN [session |-> s, fault |-> TRUE]
             ELSE ProcessGroups(
                     SettleGroup(s, product_orders_list,
                                 GroupPrice(s, pid, product_orders_list)),
                     Tail(keys), ids)

\* mutant of FinalizeWindow: the total counts the failed orders too
FinalizeWindow_SumAllOrders(s, w, ids) ==
    [s EXCEPT !.wcur[w] = [@ EXCEPT
               !.status = "finalized",
               !.total_participants = Cardinality({s.ocur[i].buyer_id : i \in Range(ids)}),
               !.total_amount = SeqSum([k \in DOMAIN ids |-> s.ocur[ids[k]].total_amount])],
           !.processed_count = @ + 1]

\* window totals of lines 850-856
FinalizeWindow(s, w, ids) ==
    LET paid == SelectSeq(ids, LAMBDA i : s.ocur[i].payment_status = "paid")
    IN  [s EXCEPT !.wcur[w] = [@ EXCEPT
               !.status = "finalized",
               !.total_participants = Cardinality({s.ocur[i].buyer_id : i \in Range(ids)}),
               !.total_amount = SeqSum([k \in DOMAIN paid |-> s.ocur[paid[k]].total_amount])],
           !.processed_count = @ + 1]

\* one iteration of "for window in windows_to_process"; ids is the order in
\* which the window's orders came back from the select
ProcessWindow(s, w, ids) ==
    IF ids = << >>
    THEN [s EXCEPT !.wcur[w] = [@ EXCEPT !.status = "finalized",
                                          !.total_participants = 0,
                                          !.total_amount = 0]]
    ELSE LET rows == [i \in Range(ids) |-> orders[i]]
             s1 == [s EXCEPT !.oload = rows @@ @, !.ocur = rows @@ @]
             r == ProcessGroups(s1, ProductKeys(rows, ids, {}), ids)
         IN  IF r.fault THEN r.session ELSE FinalizeWindow(r.session, w, ids)

\* mutant of SweepWindow: a window that faults ends the loop (no per-window
\* try/except), the windows after it are not processed
SweepWindow_FaultEndsLoop(p) ==
    /\ pc[p] = "sweep_loop"
    /\ sess[p].todo # << >>
    /\ LET w == Head(sess[p].todo)
           in_window == {i \in DOMAIN orders : orders[i].bulk_order_window_id = w}
       IN  \E ids \in Perms(in_window) :
             LET s1 == ProcessWindow(sess[p], w, ids) IN
             sess' = [sess EXCEPT ![p] =
                [s1 EXCEPT !.todo = IF s1.wcur[w].status = "finalized"
                                    THEN Tail(sess[p].todo) ELSE << >>]]
    /\ UNCHANGED <<balance, orders, windows, tiers, payments, now, pc, after_sweep, refused>>

SweepWindow(p) ==
    /\ pc[p] = "sweep_loop"
    /\ sess[p].todo # << >>
    /\ LET w == Head(sess[p].todo)
           in_window == {i \in DOMAIN orders : orders[i].bulk_order_window_id = w}
       IN  \E ids \in Perms(in_window) :
             sess' = [sess EXCEPT ![p] =
                [ProcessWindow(sess[p], w, ids) EXCEPT !.todo = Tail(sess[p].todo)]]
    /\ UNCHANGED <<balance, orders, windows, tiers, payments, now, pc, after_sweep, refused>>

\* what the flush of db.commit() writes for one row: the attributes whose
\* value differs from the one the session loaded
WriteBack(row, loaded, cur, attrs) ==
    [a \in DOMAIN row |-> IF a \in attrs /\ cur[a] # loaded[a] THEN cur[a] ELSE row[a]]

SweepCommit(p) ==
    /\ pc[p] = "sweep_loop"
    /\ sess[p].todo = << >>
    /\ LET s == sess[p] IN
       /\ balance' = [v \in Vendors |->
             IF s.vload[v] # NotLoaded /\ s.vcur[v] # s.vload[v]
             THEN s.vcur[v] ELSE balance[v]]
       /\ orders' = [i \in DOMAIN orders |->
             IF i \in DOMAIN s.ocur
             THEN WriteBack(orders[i], s.oload[i], s.ocur[i],
                            {"price_per_unit", "total_amount", "payment_status"})
             ELSE orders[i]]
       /\ windows' = [w \in DOMAIN windows |->
             IF w \in DOMAIN s.wcur
             THEN WriteBack(windows[w], s.wload[w], s.wcur[w],
                            {"status", "total_participants", "total_amount"})
             ELSE windows[w]]
    /\ Finish(p)
    /\ after_sweep' = IF after_sweep \in {"first", "second"} THEN "swept" ELSE "none"
    /\ UNCHANGED <<tiers, payments, now, refused>>

\* ------------------------------------------------------ create_payment_order
CreatePaymentOrder(user, amount) ==
    /\ payments' = Append(payments, [user_id |-> user, amount |-> amount, status |-> "pending"])
    /\ after_sweep' = "none"
    /\ UNCHANGED <<balance, orders, windows, tiers, now, pc, sess, refused>>

\* ------------------------------------------------------------ verify_payment
\* The Payment is looked up by its gateway order id (here: its index) and
\* the caller; signature_valid says whether the supplied signature equals
\* the HMAC the handler recomputes.
\* The check of verify_payment that refuses the request, in the order of the
\* code ("none" when the Payment is found and pending).
VerifyPaymentError(user, payment_id) ==
    IF payment_id \notin DOMAIN payments THEN "Payment record not found"
    ELSE IF payments[payment_id].user_id # user THEN "Payment record not found"
    ELSE IF payments[payment_id].status # "pending" THEN "Payment already processed"
    ELSE "none"

VerifyPaymentRefuse(p, user, payment_id) ==
    /\ pc[p] = "idle"
    /\ VerifyPaymentError(user, payment_id) # "none"
    /\ refused' = [refused EXCEPT ![p] = VerifyPaymentError(user, payment_id)]
    /\ UNCHANGED <<balance, orders, windows, tiers, payments, now, pc, sess, after_sweep>>

\* mutant of VerifyPaymentRead: the check payment.status != "pending" is
\* missing
VerifyPaymentRead_NoPendingCheck(p, user, payment_id, signature_valid) ==
    /\ pc[p] = "idle"
    /\ payment_id \in DOMAIN payments
    /\ payments[payment_id].user_id = user
    /\ sess' = [sess EXCEPT ![p] =
          [h |-> "verify_payment",
           user |-> user,
           payment_id |-> payment_id,
           amount |-> payments[payment_id].amount,
           loaded_balance |-> NotLoaded]]
    /\ pc' = [pc EXCEPT ![p] = IF signature_valid THEN "verify_vendor" ELSE "verify_reject"]
    /\ UNCHANGED <<balance, orders, windows, tiers, payments, now, after_sweep, refused>>

VerifyPaymentRead(p, user, payment_id, signature_valid) ==
    /\ pc[p] = "idle"
    /\ payment_id \in DOMAIN payments
    /\ payments[payment_id].user_id = user
    /\ payments[payment_id].status = "pending"
    /\ sess' = [sess EXCEPT ![p] =
          [h |-> "verify_payment",
           user |-> user,
           payment_id |-> payment_id,
           amount |-> payments[payment_id].amount,
           loaded_balance |-> NotLoaded]]
    /\ pc' = [pc EXCEPT ![p] = IF signature_valid THEN "verify_vendor" ELSE "verify_reject"]
    /\ UNCHANGED <<balance, orders, windows, tiers, payments, now, after_sweep, refused>>

\* mutant of VerifyPaymentReject: the Payment is left pending
VerifyPaymentReject_LeavesPending(p) ==
    /\ pc[p] = "verify_reject"
    /\ Finish(p)
    /\ after_sweep' = "none"
    /\ UNCHANGED <<balance, orders, windows, tiers, payments, now, refused>>

\* payment.status = "failed"; db.commit()
VerifyPaymentReject(p) ==
    /\ pc[p] = "verify_reject"
    /\ payments' = [payments EXCEPT ![sess[p].payment_id].status = "failed"]
    /\ Finish(p)
    /\ after_sweep' = "none"
    /\ UNCHANGED <<balance, orders, windows, tiers, now, refused>>

\* select(VendorProfile) of the "vendor" branch; scalar_one_or_none() gives
\* None for a user without a vendor profile
VerifyPaymentVendor(p) ==
    /\ pc[p] = "verify_vendor"
    /\ sess' = [sess EXCEPT ![p].loaded_balance =
                  IF sess[p].user \in Vendors THEN balance[sess[p].user] ELSE NotLoaded]
    /\ pc' = [pc EXCEPT ![p] = "verify_commit"]
    /\ UNCHANGED <<balance, orders, windows, tiers, payments, now, after_sweep, refused>>

VerifyPaymentCommit(p) ==
    /\ pc[p] = "verify_commit"
    /\ payments' = [payments EXCEPT ![sess[p].payment_id].status = "completed"]
    /\ balance' = IF sess[p].loaded_balance # NotLoaded
                  THEN [balance EXCEPT ![sess[p].user] = sess[p].loaded_balance + sess[p].amount]
                  ELSE balance
    /\ Finish(p)
    /\ after_sweep' = "none"
    /\ UNCHANGED <<orders, windows, tiers, now, refused>>

\* -------------------------------------------------------- delete_pricing_tier
\* reads the tier and counts the product's tiers
DeleteTierRead(p, product, tier) ==
    /\ pc[p] = "idle"
    /\ tier \in tiers[product]
    /\ ~(Cardinality(tiers[product]) <= 1)
    /\ sess' = [sess EXCEPT ![p] = [h |-> "delete_pricing_tier", product |-> product, tier |-> tier]]
    /\ pc' = [pc EXCEPT ![p] = "delete_tier_commit"]
    /\ UNCHANGED <<balance, orders, windows, tiers, payments, now, after_sweep, refused>>

\* db.delete(pricing_tier); db.commit()
DeleteTierCommit(p) ==
    /\ pc[p] = "delete_tier_commit"
    /\ tiers' = [tiers EXCEPT ![sess[p].product] = @ \ {sess[p].tier}]
    /\ Finish(p)
    /\ after_sweep' = "none"
    /\ UNCHANGED <<balance, orders, windows, payments, now, refused>>

\* ------------------------------------------------------------ add_pricing_tier
\* the loop "Validate no overlap": the new tier is refused when its
\* min_quantity, or its max_quantity if it has one, lies in the range of an
\* existing tier
add_pricing_tier_overlaps(existing_tiers, tier_data) ==
    \E tier \in existing_tiers :
       \/ /\ tier_data.min_quantity >= tier.min_quantity
          /\ (tier.max_quantity = NoMax \/ tier_data.min_quantity <= tier.max_quantity)
       \/ /\ tier_data.max_quantity # NoMax
          /\ tier_data.max_quantity >= tier.min_quantity
          /\ (tier.max_quantity = NoMax \/ tier_data.max_quantity <= tier.max_quantity)

\* the table's constraints on a tier next to the other tiers of its product:
\* max_quantity > min_quantity or NULL, one tier per (product, min_quantity)
TierConstraints(others, t) ==
    /\ t.max_quantity = NoMax \/ t.max_quantity > t.min_quantity
    /\ \A o \in others : o.min_quantity # t.min_quantity

AddPricingTier(product, tier_data) ==
    /\ tier_data \in TierUniverse
    /\ ~add_pricing_tier_overlaps(tiers[product], tier_data)
    /\ TierConstraints(tiers[product], tier_data)
    /\ tiers' = [tiers EXCEPT ![product] = @ \cup {tier_data}]
    /\ after_sweep' = "none"
    /\ UNCHANGED <<balance, orders, windows, payments, now, pc, sess, refused>>

\* --------------------------------------------------------- update_pricing_tier
\* BulkPricingTierUpdate: every field is optional; max_quantity may be sent as
\* null.  The validator compares max_quantity with min_quantity only when
\* both are sent.
TierUpdates ==
    {u \in [min_quantity : {Unset} \cup 1..MaxTierQty,
            max_quantity : {Unset, NoMax} \cup 1..MaxTierQty,
            price_per_unit : {Unset}] :
        ~(/\ u.max_quantity \notin {Unset, NoMax}
          /\ u.min_quantity # Unset
          /\ u.max_quantity <= u.min_quantity)}

\* setattr(pricing_tier, field, value) for the fields that were sent
UpdatedTier(tier, u) ==
    [f \in DOMAIN tier |-> IF u[f] = Unset THEN tier[f] ELSE u[f]]

\* the fields are written without a look at the product's other tiers; the
\* commit fails on the table's constraints only
UpdatePricingTier(product, tier, tier_update) ==
    /\ tier \in tiers[product]
    /\ tier_update \in TierUpdates
    /\ TierConstraints(tiers[product] \ {tier}, UpdatedTier(tier, tier_update))
    /\ tiers' = [tiers EXCEPT ![product] = (@ \ {tier}) \cup {UpdatedTier(tier, tier_update)}]
    /\ after_sweep' = "none"
    /\ UNCHANGED <<balance, orders, windows, payments, now, pc, sess, refused>>

\* ------------------------------------------------------------------- rbac
\* RESOURCES_FOR_ROLES; a resource name is the sequence of its path
\* segments ("users/profiles" is <<"users", "profiles">>)
RESOURCES_FOR_ROLES ==
    [admin |->
        (<<"admin">> :> {"read", "write", "delete"}) @@
        (<<"users">> :> {"read", "write", "delete"}) @@
        (<<"users", "profiles">> :> {"read", "write", "delete"}) @@
        (<<"users", "vendor-profiles">> :> {"read", "write", "delete"}) @@
        (<<"users", "supplier-profiles">> :> {"read", "write", "delete"}) @@
        (<<"users", "reviews">> :> {"read", "write", "delete"}) @@
        (<<"categories">> :> {"read", "write", "delete"}) @@
        (<<"products">> :> {"read", "write", "delete"}) @@
        (<<"analytics">> :> {"read"}) @@
        (<<"settings">> :> {"read", "write"}) @@
        (<<"reports">> :> {"read", "write"}),
     supplier |->
        (<<"users", "me">> :> {"read", "write"}) @@
        (<<"users", "profiles">> :> {"read"}) @@
        (<<"users", "supplier-profiles">> :> {"read", "write"}) @@
        (<<"users", "vendor-profiles">> :> {"read"}) @@
        (<<"users", "reviews">> :> {"read", "write"}) @@
        (<<"categories">> :> {"read"}) @@
        (<<"products">> :> {"read", "write", "delete"}) @@
        (<<"products", "bulk-pricing">> :> {"read", "write", "delete"}),
     vendor |->
        (<<"users", "me">> :> {"read", "write"}) @@
        (<<"users", "profiles">> :> {"read"}) @@
        (<<"users", "vendor-profiles">> :> {"read", "write"}) @@
        (<<"users", "supplier-profiles">> :> {"read"}) @@
        (<<"users", "reviews">> :> {"read", "write"}) @@
        (<<"categories">> :> {"read"}) @@
        (<<"products">> :> {"read"}),
     user |->
        (<<"users", "me">> :> {"read", "write"}) @@
        (<<"users", "profiles">> :> {"read"}) @@
        (<<"users", "vendor-profiles">> :> {"read"}) @@
        (<<"users", "supplier-profiles">> :> {"read"}) @@
        (<<"categories">> :> {"read"}) @@
        (<<"products">> :> {"read"})]

\* the roles a principal can carry; "moderator" has no entry in the table
Roles == DOMAIN RESOURCES_FOR_ROLES \cup {"moderator"}

has_permission(user_role, resource_name, required_permission) ==
    IF user_role \notin DOMAIN RESOURCES_FOR_ROLES THEN FALSE
    ELSE LET user_permissions == RESOURCES_FOR_ROLES[user_role]
             parent_resource == IF Len(resource_name) > 1 THEN <<resource_name[1]>>
                                ELSE resource_name
         IN  IF resource_name \in DOMAIN user_permissions
             THEN required_permission \in user_permissions[resource_name]
             ELSE IF parent_resource \in DOMAIN user_permissions
             THEN required_permission \in user_permissions[parent_resource]
             ELSE FALSE

\* require_permission("users/profiles", "write")
require_profile_write(user_role) == has_permission(user_role, <<"users", "profiles">>, "write")

\* the detail of the 403 of check_rbac, which names the role
AccessDenied(user_role) ==
    CASE user_role = "vendor" ->
           "Access denied. Vendor role does not have write permission for users/profiles"
      [] user_role = "supplier" ->
           "Access denied. Supplier role does not have write permission for users/profiles"
      [] user_role = "user" ->
           "Access denied. User role does not have write permission for users/profiles"
      [] user_role = "admin" ->
           "Access denied. Admin role does not have write permission for users/profiles"
      [] OTHER ->
           "Access denied. Moderator role does not have write permission for users/profiles"

\* a request to a route that depends on require_profile_write, refused by
\* check_rbac before the handler runs
RbacDeny(p, user_role) ==
    /\ pc[p] = "idle"
    /\ ~require_profile_write(user_role)
    /\ refused' = [refused EXCEPT ![p] = AccessDenied(user_role)]
    /\ UNCHANGED <<balance, orders, windows, tiers, payments, now, pc, sess, after_sweep>>

\* POST /orders/create: the dependency require_profile_write, then the
\* handler
PostCreateOrder(p, user_role, buyer, product, quantity, order_type, window_id) ==
    /\ require_profile_write(user_role)
    /\ CreateOrderRead(p, buyer, product, quantity, order_type, window_id)

\* ------------------------------------------------------------ specifications
\* Concurrent request handlers: two sessions run order admission, pay-later
\* settlement, the sweep and payment verification in any interleaving.
Next ==
    \/ Tick
    \/ /\ OrdersInFlight < MaxOrders
       /\ \E p \in Procs, b \in Vendors, q \in QtyChoices,
             t \in {"buy_now", "buy_now_pay_later"}, w \in 0..MaxConcWindows :
             CreateOrderRead(p, b, 1, q, t, w)
    \/ \E p \in Procs : CreateOrderCommit(p)
    \/ /\ Len(windows) < MaxConcWindows
       /\ \E d \in DurationChoices : CreateBulkOrderWindow(1, d)
    \/ \E p \in Procs, b \in Vendors, i \in 1..MaxOrders : PayPendingRead(p, b, i)
    \/ \E p \in Procs : PayPendingCommit(p)
    \/ \E p \in Procs : SweepSelect(p)
    \/ \E p \in Procs : SweepWindow(p)
    \/ \E p \in Procs : SweepCommit(p)
    \/ /\ Len(payments) < MaxPayments
       /\ \E u \in Vendors, a \in AmountChoices : CreatePaymentOrder(u, a)
    \/ \E p \in Procs, u \in Vendors, i \in 1..MaxPayments, ok \in BOOLEAN :
          VerifyPaymentRead(p, u, i, ok)
    \/ \E p \in Procs : VerifyPaymentReject(p)
    \/ \E p \in Procs : VerifyPaymentVendor(p)
    \/ \E p \in Procs : VerifyPaymentCommit(p)

Spec == Init /\ [][Next]_vars

\* Settlement: one session admits orders into windows and runs the sweep;
\* tiers are deleted by two sessions (two deletions that both count two
\* tiers leave the product without any).
NextSettle ==
    \/ Tick
    \/ /\ OrdersInFlight < MaxOrders
       /\ \E b \in Vendors, pr \in Products, q \in QtyChoices, w \in 1..MaxWindows :
             CreateOrderRead(1, b, pr, q, "bulk_order", w)
    \/ CreateOrderCommit(1)
    \/ /\ Len(windows) < MaxWindows
       /\ \E d \in DurationChoices : CreateBulkOrderWindow(1, d)
    \/ SweepSelect(1)
    \/ SweepWindow(1)
    \/ SweepCommit(1)
    \/ \E p \in Procs : \E t \in InitTiers[2] : DeleteTierRead(p, 2, t)
    \/ \E p \in Procs : DeleteTierCommit(p)

SpecSettle == Init /\ [][NextSettle]_vars

\* Settlement under a scheduler that keeps invoking the sweep: one window,
\* one order at most, tiers deleted by two sessions.  A sweep is started
\* again and again, and a request that was started runs to its end.
NextSweep ==
    \/ Tick
    \/ /\ OrdersInFlight < MaxAdmitOrders
       /\ \E b \in Vendors, pr \in Products, q \in QtyChoices, w \in 1..MaxConcWindows :
             CreateOrderRead(1, b, pr, q, "bulk_order", w)
    \/ CreateOrderCommit(1)
    \/ /\ Len(windows) < MaxConcWindows
       /\ \E d \in DurationChoices : CreateBulkOrderWindow(1, d)
    \/ SweepSelect(1)
    \/ SweepWindow(1)
    \/ SweepCommit(1)
    \/ \E p \in Procs : \E t \in InitTiers[2] : DeleteTierRead(p, 2, t)
    \/ \E p \in Procs : DeleteTierCommit(p)

LiveSweep ==
    /\ Init
    /\ [][NextSweep]_vars
    /\ SF_vars(SweepSelect(1))
    /\ WF_vars(SweepWindow(1))
    /\ WF_vars(SweepCommit(1))
    /\ WF_vars(CreateOrderCommit(1))
    /\ \A p \in Procs : WF_vars(DeleteTierCommit(p))

\* Balance top-up: payment orders are created and confirmations submitted
\* one request at a time, by users with and without a vendor profile, next
\* to buy_now orders that spend the balance.
NextPay ==
    \/ /\ Len(payments) < MaxPayPayments
       /\ \E u \in Users, a \in PayAmountChoices : CreatePaymentOrder(u, a)
    \/ \E u \in Users, i \in 1..MaxPayPayments, ok \in BOOLEAN :
          VerifyPaymentRead(1, u, i, ok)
    \/ \E u \in Users, i \in 1..MaxPayPayments : VerifyPaymentRefuse(1, u, i)
    \/ VerifyPaymentReject(1)
    \/ VerifyPaymentVendor(1)
    \/ VerifyPaymentCommit(1)
    \/ /\ OrdersInFlight < MaxOrders
       /\ \E b \in Vendors, q \in QtyChoices : CreateOrderRead(1, b, 1, q, "buy_now", NoWindow)
    \/ CreateOrderCommit(1)

SpecPay == Init /\ [][NextPay]_vars

\* Price resolution: product 1 starts with any tier list create_product
\* accepts, and vendor 1 places orders of every quantity, which create_order
\* prices with calculate_price_for_quantity.
InitResolve ==
    /\ \E v \in TierLists : tiers = [InitTiers EXCEPT ![1] = v]
    /\ balance = InitBalance
    /\ orders = << >>
    /\ windows = << >>
    /\ payments = << >>
    /\ now = 0
    /\ pc = [p \in Procs |-> "idle"]
    /\ sess = [p \in Procs |-> NoSession]
    /\ after_sweep = "none"
    /\ refused = [p \in Procs |-> "none"]

NextResolve ==
    \/ /\ OrdersInFlight < MaxOrders
       /\ \E q \in ResolveQtyChoices :
             CreateOrderRead(1, 1, 1, q, "buy_now_pay_later", NoWindow)
    \/ CreateOrderCommit(1)

SpecResolve == InitResolve /\ [][NextResolve]_vars

\* Admission: one session serves create_order requests of every vendor,
\* product, quantity and order type, with and without a window reference,
\* admitted or refused; windows are opened and expire, and the tiers of
\* product 2 are deleted by two sessions.
NextAdmit ==
    \/ Tick
    \/ /\ OrdersInFlight < MaxAdmitOrders
       /\ \E b \in Vendors, pr \in Products, q \in QtyChoices, t \in OrderTypes,
             w \in 0..MaxConcWindows : CreateOrderRead(1, b, pr, q, t, w)
    \/ \E b \in Vendors, pr \in Products, q \in QtyChoices, t \in OrderTypes,
          w \in 0..MaxConcWindows : CreateOrderRefuse(1, b, pr, q, t, w)
    \/ CreateOrderCommit(1)
    \/ /\ Len(windows) < MaxConcWindows
       /\ \E d \in DurationChoices : CreateBulkOrderWindow(1, d)
    \/ \E p \in Procs : \E t \in InitTiers[2] : DeleteTierRead(p, 2, t)
    \/ \E p \in Procs : DeleteTierCommit(p)

SpecAdmit == Init /\ [][NextAdmit]_vars

\* Atomicity of create_order: one session serves requests of every vendor,
\* product, quantity and order type without a window; a request is refused,
\* committed, or fails before the end of its commit.
NextAtomic ==
    \/ /\ OrdersInFlight < MaxOrders
       /\ \E b \in Vendors, pr \in Products, q \in QtyChoices, t \in OrderTypes :
             CreateOrderRead(1, b, pr, q, t, NoWindow)
    \/ \E b \in Vendors, pr \in Products, q \in QtyChoices, t \in OrderTypes :
          CreateOrderRefuse(1, b, pr, q, t, NoWindow)
    \/ CreateOrderCommit(1)
    \/ CreateOrderAbort(1)

SpecAtomic == Init /\ [][NextAtomic]_vars

\* Concurrent confirmation: two sessions serve verify_payment requests that
\* carry the valid signature, for payments of users with and without a
\* vendor profile.
NextVerify ==
    \/ /\ Len(payments) < MaxPayPayments
       /\ \E u \in Users, a \in PayAmountChoices : CreatePaymentOrder(u, a)
    \/ \E p \in Procs, u \in Users, i \in 1..MaxPayPayments : VerifyPaymentRead(p, u, i, TRUE)
    \/ \E p \in Procs, u \in Users, i \in 1..MaxPayPayments : VerifyPaymentRefuse(p, u, i)
    \/ \E p \in Procs : VerifyPaymentVendor(p)
    \/ \E p \in Procs : VerifyPaymentCommit(p)

SpecVerify == Init /\ [][NextVerify]_vars

\* Tier maintenance: product 1 is created with any tier list create_product
\* accepts; tiers are then added, updated and deleted, one request at a time,
\* up to MaxTierCount tiers.
NextTiers ==
    \/ /\ Cardinality(tiers[1]) < MaxTierCount
       /\ \E t \in TierUniverse : AddPricingTier(1, t)
    \/ \E t \in tiers[1], u \in TierUpdates : UpdatePricingTier(1, t, u)
    \/ \E t \in tiers[1] : DeleteTierRead(1, 1, t)
    \/ DeleteTierCommit(1)

SpecTiers == InitResolve /\ [][NextTiers]_vars

\* Access control: requests to POST /orders/create by principals of every
\* role, for the accounts that have a vendor profile; one request at a time.
NextRbac ==
    \/ /\ OrdersInFlight < MaxOrders
       /\ \E r \in Roles, b \in Vendors, pr \in Products, q \in QtyChoices,
             t \in OrderTypes : PostCreateOrder(1, r, b, pr, q, t, NoWindow)
    \/ \E r \in Roles : RbacDeny(1, r)
    \/ \E b \in Vendors, pr \in Products, q \in QtyChoices, t \in OrderTypes :
          CreateOrderRefuse(1, b, pr, q, t, NoWindow)
    \/ CreateOrderCommit(1)

SpecRbac == Init /\ [][NextRbac]_vars

\* =================================================================== claims
OrdersIn(w) == {i \in DOMAIN orders : orders[i].bulk_order_window_id = w}

RECURSIVE SumTotals(_, _)
SumTotals(rows, S) ==
    IF S = {} THEN 0
    ELSE LET i == CHOOSE x \in S : TRUE
         IN  rows[i].total_amount + SumTotals(rows, S \ {i})

RECURSIVE SumQuantities(_, _)
SumQuantities(rows, S) ==
    IF S = {} THEN 0
    ELSE LET i == CHOOSE x \in S : TRUE
         IN  rows[i].quantity + SumQuantities(rows, S \ {i})

\* what a vendor's paid orders add up to
PaidTotal(v) ==
    SumTotals(orders, {i \in DOMAIN orders :
                          orders[i].buyer_id = v /\ orders[i].payment_status = "paid"})

\* what a vendor's completed payments add up to
RECURSIVE SumAmounts(_, _)
SumAmounts(rows, S) ==
    IF S = {} THEN 0
    ELSE LET i == CHOOSE x \in S : TRUE
         IN  rows[i].amount + SumAmounts(rows, S \ {i})

CompletedTotal(v) ==
    SumAmounts(payments, {i \in DOMAIN payments :
                             payments[i].user_id = v /\ payments[i].status = "completed"})

\* the balance a session holds for a vendor: its own copy once loaded, the
\* committed row before
HeldBalance(s, v) == IF s.vload[v] = NotLoaded THEN balance[v] ELSE s.vcur[v]

\* C1: in every reachable committed state, under any interleaving of order
\* admission, pay-later settlement, sweep and payment verification, every
\* vendor's balance is >= 0.
C1_BalanceNonNegative == \A v \in Vendors : balance[v] >= 0

\* C1 witness: debits of one vendor overlapped (its paid orders add up to
\* more than its funds ever were) and the balance is still not negative.
C1_Witness ==
    \E v \in Vendors : PaidTotal(v) > InitBalance[v] + CompletedTotal(v)

\* C2: debits against one account never both succeed when their sum exceeds
\* the balance: as long as no payment has been credited, a vendor's paid
\* orders add up to at most its balance at the start.
C2_NoDoubleSpend ==
    (\A i \in DOMAIN payments : payments[i].status = "pending")
        => \A v \in Vendors : PaidTotal(v) <= InitBalance[v]

\* C3: when the sweep settles a window, every order of the window is
\* rewritten to the tier price of the summed quantity of the window's orders
\* for its product, and to that price times its own quantity; the commit
\* stores exactly these values.
C3_AggregateReprice ==
    /\ [][SweepWindow(1) =>
            LET w == Head(sess[1].todo)
                s1 == sess'[1]
            IN  s1.wcur[w].status = "finalized" =>
                  \A i \in OrdersIn(w) :
                     LET pid == orders[i].product_id
                         agg == SumQuantities(orders,
                                   {j \in OrdersIn(w) : orders[j].product_id = pid})
                         price == calculate_price_for_quantity(tiers[pid], agg)
                     IN  /\ s1.ocur[i].price_per_unit = price
                         /\ s1.ocur[i].total_amount = price * orders[i].quantity]_vars
    /\ [][SweepCommit(1) =>
            \A i \in DOMAIN sess[1].ocur :
               /\ orders'[i].price_per_unit = sess[1].ocur[i].price_per_unit
               /\ orders'[i].total_amount = sess[1].ocur[i].total_amount]_vars

\* C3 witness: a settled order of quantity 1 carries the price of the tier
\* its window's total reached, not the price of a single unit.
C3_Witness ==
    \E i \in DOMAIN orders :
       /\ orders[i].bulk_order_window_id # NoWindow
       /\ windows[orders[i].bulk_order_window_id].status = "finalized"
       /\ orders[i].product_id = 1
       /\ orders[i].price_per_unit # calculate_price_for_quantity(tiers[1], orders[i].quantity)
       /\ orders[i].total_amount = orders[i].price_per_unit * orders[i].quantity

\* C4: settling a window leaves every order paid or failed; each buyer's
\* balance drops by exactly the totals of its paid orders and never below
\* zero; a failed order's total exceeds what its buyer has left; the window
\* is finalized and the commit stores these balances and statuses.
C4_SettleAgainstBalance ==
    /\ [][SweepWindow(1) =>
            LET w == Head(sess[1].todo)
                s0 == sess[1]
                s1 == sess'[1]
            IN  s1.wcur[w].status = "finalized" =>
                  /\ \A i \in OrdersIn(w) :
                        /\ s1.ocur[i].payment_status \in {"paid", "failed"}
                        /\ s1.ocur[i].payment_status = "failed" =>
                              s1.ocur[i].total_amount > HeldBalance(s1, orders[i].buyer_id)
                  /\ \A v \in Vendors :
                        /\ HeldBalance(s1, v) >= 0
                        /\ HeldBalance(s0, v) - HeldBalance(s1, v) =
                              SumTotals(s1.ocur, {i \in OrdersIn(w) :
                                 /\ orders[i].buyer_id = v
                                 /\ s1.ocur[i].payment_status = "paid"})]_vars
    /\ [][SweepCommit(1) =>
            /\ \A v \in Vendors : balance'[v] = HeldBalance(sess[1], v)
            /\ \A i \in DOMAIN sess[1].ocur :
                  orders'[i].payment_status = sess[1].ocur[i].payment_status
            /\ \A w \in DOMAIN sess[1].wcur :
                  windows'[w].status = sess[1].wcur[w].status]_vars

\* C4 witness: a finalized window holds a failed and a paid order of the
\* same buyer, the failed one for more than the buyer had at the start.
C4_Witness ==
    \E i, j \in DOMAIN orders :
       /\ orders[i].bulk_order_window_id # NoWindow
       /\ orders[i].bulk_order_window_id = orders[j].bulk_order_window_id
       /\ windows[orders[i].bulk_order_window_id].status = "finalized"
       /\ orders[i].buyer_id = orders[j].buyer_id
       /\ orders[i].payment_status = "failed"
       /\ orders[j].payment_status = "paid"
       /\ orders[i].total_amount > InitBalance[orders[i].buyer_id]
       /\ balance[orders[j].buyer_id] = InitBalance[orders[j].buyer_id] - orders[j].total_amount

\* C5: a finalized window's total_participants is the number of distinct
\* buyers over the orders referencing it and its total_amount the sum of the
\* totals of those of them that are paid (0 and 0 without orders).
C5_WindowTotals ==
    \A w \in DOMAIN windows :
       windows[w].status = "finalized" =>
          /\ windows[w].total_participants =
                Cardinality({orders[i].buyer_id : i \in OrdersIn(w)})
          /\ windows[w].total_amount =
                SumTotals(orders, {i \in OrdersIn(w) : orders[i].payment_status = "paid"})

\* C5 witness: a finalized window of two buyers, one order paid and one
\* failed, whose total is the paid order's alone.
C5_Witness ==
    \E w \in DOMAIN windows : \E i, j \in OrdersIn(w) :
       /\ windows[w].status = "finalized"
       /\ windows[w].total_participants = 2
       /\ orders[i].payment_status = "paid"
       /\ orders[j].payment_status = "failed"
       /\ windows[w].total_amount = orders[i].total_amount

\* the windows a sweep session finalized
FinalizedBy(s) == {w \in DOMAIN s.wcur : s.wcur[w].status = "finalized"}

\* a window none of whose orders is of a product without pricing tiers
CanSettle(w) == \A i \in OrdersIn(w) : tiers[orders[i].product_id] # {}

\* C6: settlement is atomic per window: when the sweep commits, a window
\* whose processing faulted is stored unchanged (still open) with each of
\* its orders unchanged, and each balance has dropped by exactly the paid
\* totals of the windows this sweep finalized.
C6_AtomicPerWindow ==
    [][SweepCommit(1) =>
         /\ \A w \in DOMAIN sess[1].wcur \ FinalizedBy(sess[1]) :
               /\ windows'[w] = windows[w]
               /\ \A i \in OrdersIn(w) : orders'[i] = orders[i]
         /\ \A v \in Vendors :
               balance[v] - balance'[v] =
                  SumTotals(orders', {i \in DOMAIN orders :
                     /\ orders[i].buyer_id = v
                     /\ orders[i].bulk_order_window_id \in FinalizedBy(sess[1])
                     /\ orders'[i].payment_status = "paid"})]_vars

\* C7: a sweep that runs right after another sweep, with no state change in
\* between, changes no window, no order and no balance.
C7_SecondSweepNoOp ==
    [][SweepCommit(1) /\ after_sweep = "second" =>
          UNCHANGED <<balance, orders, windows>>]_vars

\* C8: under any interleaving of two sweeps no buyer is debited twice for
\* one order: what a vendor has been debited never exceeds the totals of its
\* paid orders.
C8_NoDoubleSettlement ==
    \A v \in Vendors : InitBalance[v] - balance[v] <= PaidTotal(v)

\* C9: once a window is finalized no step changes its status or its totals,
\* nor the price_per_unit, total_amount or payment_status of an order that
\* references it.
C9_FinalizedIsFinal ==
    [][\A w \in DOMAIN windows :
          windows[w].status = "finalized" =>
             /\ windows'[w] = windows[w]
             /\ \A i \in OrdersIn(w) :
                   /\ orders'[i].price_per_unit = orders[i].price_per_unit
                   /\ orders'[i].total_amount = orders[i].total_amount
                   /\ orders'[i].payment_status = orders[i].payment_status]_vars

\* C10: a fault is confined to the window that refused it: when the sweep
\* commits, every window it selected whose orders can all be priced is
\* stored finalized, with the totals the sweep computed, whatever happened
\* to the other windows it selected.
C10_FaultConfined ==
    [][SweepCommit(1) =>
         \A w \in DOMAIN sess[1].wcur :
            CanSettle(w) =>
               /\ windows'[w].status = "finalized"
               /\ windows'[w].total_participants = sess[1].wcur[w].total_participants
               /\ windows'[w].total_amount = sess[1].wcur[w].total_amount]_vars

\* C10 witness: right after a sweep one expired window is still open because
\* one of its products has no pricing tiers, and another expired window is
\* finalized with a paid order.
C10_Witness ==
    /\ after_sweep = "swept"
    /\ \E w1, w2 \in DOMAIN windows :
          /\ windows[w1].status = "open"
          /\ windows[w1].window_end_time < now
          /\ ~CanSettle(w1)
          /\ windows[w2].status = "finalized"
          /\ windows[w2].window_end_time = windows[w1].window_end_time
          /\ \E i \in OrdersIn(w2) : orders[i].payment_status = "paid"

\* what a vendor's balance has been credited: its rise over the initial
\* balance, the paid orders put back
Credited(v) == balance[v] - InitBalance[v] + PaidTotal(v)

\* C11: a valid confirmation submitted twice in sequence credits once: the
\* confirmation of a pending Payment of a vendor raises the balance by the
\* amount and completes the Payment, a confirmation of a completed Payment
\* is refused as already processed and changes neither balance nor Payment,
\* so that what a vendor was credited is what its completed Payments add up
\* to.
C11_CreditedOnce ==
    /\ [](\A v \in Vendors : Credited(v) = CompletedTotal(v))
    /\ [][VerifyPaymentCommit(1) /\ sess[1].user \in Vendors =>
            /\ balance'[sess[1].user] = balance[sess[1].user] + sess[1].amount
            /\ payments'[sess[1].payment_id].status = "completed"]_vars
    /\ [][\A u \in Vendors, i \in DOMAIN payments :
            (/\ VerifyPaymentRefuse(1, u, i)
             /\ payments[i].user_id = u
             /\ payments[i].status = "completed") =>
               /\ refused'[1] = "Payment already processed"
               /\ UNCHANGED <<balance, payments>>]_vars

\* C11 witness: a vendor's Payment is completed and credited once, and the
\* confirmation submitted again has been refused as already processed.
C11_Witness ==
    /\ refused[1] = "Payment already processed"
    /\ pc[1] = "idle"
    /\ \E i \in DOMAIN payments :
          /\ payments[i].user_id \in Vendors
          /\ payments[i].status = "completed"
          /\ \A j \in DOMAIN payments : j # i => payments[j].status = "pending"
          /\ Credited(payments[i].user_id) = payments[i].amount

\* C12: a confirmation whose signature does not match takes the path that
\* changes no balance and stores the pending Payment as failed.
C12_BadSignatureFails ==
    /\ [][\A u \in Users, i \in DOMAIN payments :
            VerifyPaymentRead(1, u, i, FALSE) => pc'[1] = "verify_reject"]_vars
    /\ [][VerifyPaymentReject(1) =>
            /\ payments[sess[1].payment_id].status = "pending"
            /\ payments'[sess[1].payment_id].status = "failed"
            /\ \A j \in DOMAIN payments :
                  j # sess[1].payment_id => payments'[j] = payments[j]
            /\ UNCHANGED balance]_vars

\* C12 witness: a Payment is failed and nobody has been credited.
C12_Witness ==
    /\ \E i \in DOMAIN payments : payments[i].status = "failed"
    /\ \A i \in DOMAIN payments : payments[i].status # "completed"
    /\ \A v \in Vendors : Credited(v) = 0

\* C13: every completed Payment has been credited to its owner: what each
\* user's completed Payments add up to is what the user's account was
\* credited (nothing, for a user without an account).
C13_CompletedIsCredited ==
    \A u \in Users :
       CompletedTotal(u) = IF u \in Vendors THEN Credited(u) ELSE 0

\* C14: a Payment whose status is completed or failed keeps that status,
\* and no confirmation is committed (crediting a balance) for a Payment that
\* is no longer pending.
C14_TerminalIsFinal ==
    /\ [][\A i \in DOMAIN payments :
            payments[i].status \in {"completed", "failed"} =>
               payments'[i].status = payments[i].status]_vars
    /\ [][\A p \in Procs :
            VerifyPaymentCommit(p) =>
               payments[sess[p].payment_id].status = "pending"]_vars

\* a tier's range contains the quantity
InRange(t, q) == q >= t.min_quantity /\ (t.max_quantity = NoMax \/ q <= t.max_quantity)

\* no quantity lies in the range of two tiers (two unbounded tiers share
\* every quantity from the larger min_quantity on)
NonOverlapping(ts) ==
    \A t1, t2 \in ts : t1 # t2 => \A q \in ResolveQtyChoices : ~(InRange(t1, q) /\ InRange(t2, q))

\* C15: for a non-empty, non-overlapping tier list and a quantity q > 0, the
\* resolved price is the price of the tier whose range contains q when there
\* is one, and the price of the tier with the smallest min_quantity when q is
\* below every tier's min_quantity; every admitted order carries the price
\* resolved for its quantity.
C15_ResolveInRange ==
    NonOverlapping(tiers[1]) =>
       /\ \A q \in ResolveQtyChoices :
             LET price == calculate_price_for_quantity(tiers[1], q) IN
             /\ \A t \in tiers[1] : InRange(t, q) => price = t.price_per_unit
             /\ (\A t \in tiers[1] : q < t.min_quantity) =>
                   \A t \in tiers[1] :
                      (\A u \in tiers[1] : t.min_quantity <= u.min_quantity) =>
                         price = t.price_per_unit
       /\ \A i \in DOMAIN orders :
             /\ \A t \in tiers[1] :
                   InRange(t, orders[i].quantity) => orders[i].price_per_unit = t.price_per_unit
             /\ (\A t \in tiers[1] : orders[i].quantity < t.min_quantity) =>
                   orders[i].price_per_unit = SortedTiers(tiers[1])[1].price_per_unit

\* an order below every tier's min_quantity priced by the first tier, and an
\* order in the range of a later tier with another price
C15_Witness ==
    /\ NonOverlapping(tiers[1])
    /\ Len(orders) = 2
    /\ \A t \in tiers[1] : orders[1].quantity < t.min_quantity
    /\ \E t \in tiers[1] :
          /\ InRange(t, orders[2].quantity)
          /\ t # SortedTiers(tiers[1])[1]
          /\ t.price_per_unit # SortedTiers(tiers[1])[1].price_per_unit
          /\ orders[2].price_per_unit = t.price_per_unit
    /\ orders[1].price_per_unit = SortedTiers(tiers[1])[1].price_per_unit

\* prices do not rise with min_quantity
PricesNonIncreasing(ts) ==
    \A t1, t2 \in ts : t1.min_quantity <= t2.min_quantity => t1.price_per_unit >= t2.price_per_unit

\* C16: for a non-empty, non-overlapping tier list whose prices do not rise
\* with min_quantity, a larger quantity never resolves to a higher unit price,
\* including above the highest bounded tier and in a gap between tiers: of any
\* two admitted orders the one with the larger quantity has no higher price.
C16_MonotonePrice ==
    (NonOverlapping(tiers[1]) /\ PricesNonIncreasing(tiers[1])) =>
       \A i, j \in DOMAIN orders :
          orders[i].quantity <= orders[j].quantity =>
             orders[i].price_per_unit >= orders[j].price_per_unit

\* the total create_order computes for a request
RequestTotal(pr, q) == calculate_price_for_quantity(tiers[pr], q) * q

\* the order the commit of session 1 has just inserted
Inserted == orders'[Len(orders')]

\* C17: a request whose quantity is below the product's minimum order
\* quantity is refused with the minimum-quantity error whatever its order type
\* and window reference, whether or not the product has tiers, the buyer is
\* eligible or has the funds; it is never admitted, and the refusal creates
\* no Order and changes no balance.
C17_MinimumFirst ==
    /\ [](\A b \in Vendors, pr \in Products, q \in QtyChoices, t \in OrderTypes,
             w \in 0..MaxConcWindows :
             q < minimum_order_quantity[pr] =>
                /\ CreateOrderError(b, pr, q, t, w) = "Minimum order quantity"
                /\ ~ENABLED CreateOrderRead(1, b, pr, q, t, w))
    /\ [][\A b \in Vendors, pr \in Products, q \in QtyChoices, t \in OrderTypes,
             w \in 0..MaxConcWindows :
             (CreateOrderRefuse(1, b, pr, q, t, w) /\ q < minimum_order_quantity[pr]) =>
                /\ refused'[1] = "Minimum order quantity"
                /\ UNCHANGED <<orders, balance, sess, pc>>]_vars

\* a request below the minimum was refused as such while the product has no
\* tiers left, and nothing was ordered or debited
C17_Witness ==
    /\ refused[1] = "Minimum order quantity"
    /\ tiers[2] = {}
    /\ orders = << >>
    /\ balance = InitBalance
    /\ pc[1] = "idle"

\* C18: a buy_now_pay_later request without a window that passes the product
\* checks is admitted exactly when the vendor's average rating is at least 4.5
\* (4.5 itself is eligible); otherwise it is refused as not eligible and no
\* Order is created.  The admitted order is stored with payment_status
\* pending and the due date computed five days after the request, and no
\* balance changes.
C18_PayLaterEligibility ==
    /\ [](\A b \in Vendors, pr \in Products, q \in QtyChoices :
             (q >= minimum_order_quantity[pr] /\ tiers[pr] # {}) =>
                /\ CreateOrderError(b, pr, q, "buy_now_pay_later", NoWindow) =
                      IF average_rating[b] >= 45 THEN "none"
                      ELSE "Buy now, pay later requires a minimum rating of 4.5"
                /\ (pc[1] = "idle" /\ average_rating[b] >= 45) =>
                      ENABLED CreateOrderRead(1, b, pr, q, "buy_now_pay_later", NoWindow))
    /\ [][\A b \in Vendors, pr \in Products, q \in QtyChoices :
             /\ CreateOrderRead(1, b, pr, q, "buy_now_pay_later", NoWindow) =>
                   /\ average_rating[b] >= 45
                   /\ sess'[1].order.due_date = now + 5 * 24
                   /\ UNCHANGED <<orders, balance>>
             /\ (/\ CreateOrderRefuse(1, b, pr, q, "buy_now_pay_later", NoWindow)
                 /\ refused'[1] = "Buy now, pay later requires a minimum rating of 4.5") =>
                   /\ average_rating[b] < 45
                   /\ UNCHANGED <<orders, balance>>]_vars
    /\ [][(/\ CreateOrderCommit(1)
           /\ sess[1].order.order_type = "buy_now_pay_later"
           /\ sess[1].order.bulk_order_window_id = NoWindow) =>
             /\ Len(orders') = Len(orders) + 1
             /\ Inserted.order_type = "buy_now_pay_later"
             /\ Inserted.payment_status = "pending"
             /\ Inserted.due_date = sess[1].order.due_date
             /\ balance' = balance]_vars

\* the vendor rated exactly 4.5 holds a pay-later order, pending and due in
\* five days, and the vendor rated 4.2 has just been refused; no balance moved
C18_Witness ==
    /\ Len(orders) = 1
    /\ orders[1].buyer_id = 1
    /\ average_rating[1] = 45
    /\ orders[1].order_type = "buy_now_pay_later"
    /\ orders[1].payment_status = "pending"
    /\ orders[1].due_date = 120
    /\ refused[1] = "Buy now, pay later requires a minimum rating of 4.5"
    /\ balance = InitBalance

\* C19: a buy_now request without a window that passes the product checks is
\* admitted exactly when the vendor's balance is at least price * quantity,
\* the price being the one resolved for the quantity.  The admitted order is
\* stored paid and the balance decreases by exactly the total; a request
\* refused for insufficient balance creates no Order and changes no balance.
C19_BuyNowAgainstBalance ==
    /\ [](\A b \in Vendors, pr \in Products, q \in QtyChoices :
             (q >= minimum_order_quantity[pr] /\ tiers[pr] # {}) =>
                /\ CreateOrderError(b, pr, q, "buy_now", NoWindow) =
                      IF balance[b] >= RequestTotal(pr, q) THEN "none"
                      ELSE "Insufficient balance"
                /\ (/\ pc[1] = "idle"
                    /\ balance[b] >= RequestTotal(pr, q)) =>
                      ENABLED CreateOrderRead(1, b, pr, q, "buy_now", NoWindow))
    /\ [][\A b \in Vendors, pr \in Products, q \in QtyChoices :
             /\ CreateOrderRead(1, b, pr, q, "buy_now", NoWindow) =>
                   /\ balance[b] >= RequestTotal(pr, q)
                   /\ sess'[1].order.total_amount = RequestTotal(pr, q)
                   /\ UNCHANGED <<orders, balance>>
             /\ (/\ CreateOrderRefuse(1, b, pr, q, "buy_now", NoWindow)
                 /\ refused'[1] = "Insufficient balance") =>
                   /\ balance[b] < RequestTotal(pr, q)
                   /\ UNCHANGED <<orders, balance>>]_vars
    /\ [][(/\ CreateOrderCommit(1)
           /\ sess[1].order.order_type = "buy_now"
           /\ sess[1].order.bulk_order_window_id = NoWindow) =>
             /\ Len(orders') = Len(orders) + 1
             /\ Inserted.order_type = "buy_now"
             /\ Inserted.payment_status = "paid"
             /\ balance' = [balance EXCEPT ![sess[1].order.buyer_id] =
                                           @ - sess[1].order.total_amount]]_vars

\* a vendor spent its whole balance on one buy_now order (balance equal to
\* the total) and its next buy_now request was refused for lack of funds
C19_Witness ==
    /\ Len(orders) = 1
    /\ orders[1].order_type = "buy_now"
    /\ orders[1].payment_status = "paid"
    /\ orders[1].total_amount = InitBalance[orders[1].buyer_id]
    /\ balance[orders[1].buyer_id] = 0
    /\ refused[1] = "Insufficient balance"
    /\ pc[1] = "idle"

\* C20: whatever order type a request asks for, an order admitted with a
\* window reference is stored with order_type bulk_order and payment_status
\* pending, and its admission changes no balance.
C20_WindowForcesBulk ==
    /\ [][\A b \in Vendors, pr \in Products, q \in QtyChoices, t \in OrderTypes,
             w \in 1..MaxConcWindows :
             CreateOrderRead(1, b, pr, q, t, w) =>
                /\ sess'[1].order.order_type = "bulk_order"
                /\ sess'[1].order.bulk_order_window_id = w
                /\ UNCHANGED <<orders, balance>>]_vars
    /\ [][(CreateOrderCommit(1) /\ sess[1].order.bulk_order_window_id # NoWindow) =>
             /\ Len(orders') = Len(orders) + 1
             /\ Inserted.bulk_order_window_id = sess[1].order.bulk_order_window_id
             /\ Inserted.order_type = "bulk_order"
             /\ Inserted.payment_status = "pending"
             /\ balance' = balance]_vars
    /\ [](\A i \in DOMAIN orders :
             orders[i].bulk_order_window_id # NoWindow =>
                orders[i].order_type = "bulk_order" /\ orders[i].payment_status = "pending")

\* an order admitted into the window and stored as a pending bulk order of a
\* vendor whose balance is what it was
C20_Witness ==
    /\ Len(orders) = 1
    /\ orders[1].bulk_order_window_id = 1
    /\ orders[1].order_type = "bulk_order"
    /\ orders[1].payment_status = "pending"
    /\ orders[1].total_amount = InitBalance[orders[1].buyer_id]
    /\ balance = InitBalance
    /\ pc[1] = "idle"

\* the paid buy_now orders of a vendor
PaidBuyNow(v) ==
    {i \in DOMAIN orders : /\ orders[i].buyer_id = v
                           /\ orders[i].order_type = "buy_now"
                           /\ orders[i].payment_status = "paid"}

\* C21: create_order leaves no partial state.  In every state each vendor's
\* balance is its initial balance less the totals of its paid buy_now orders
\* and every buy_now order is paid; a step that stores a buy_now order stores
\* its debit with it, a step that changes a balance stores the order with it,
\* and a request that is refused or fails stores neither.
C21_NoPartialState ==
    /\ [](\A v \in Vendors :
             /\ balance[v] = InitBalance[v] - SumTotals(orders, PaidBuyNow(v))
             /\ \A i \in DOMAIN orders :
                   orders[i].order_type = "buy_now" => orders[i].payment_status = "paid")
    /\ [][(Len(orders') > Len(orders) /\ Inserted.order_type = "buy_now") =>
             /\ Inserted.payment_status = "paid"
             /\ balance' = [balance EXCEPT ![Inserted.buyer_id] = @ - Inserted.total_amount]]_vars
    /\ [][balance' # balance =>
             /\ Len(orders') = Len(orders) + 1
             /\ Inserted.order_type = "buy_now"]_vars
    /\ [][(CreateOrderAbort(1) \/ pc[1] = "idle") => UNCHANGED <<orders, balance>>]_vars

\* a buy_now request failed after its debit was made on the session, then a
\* second one was committed: one paid order, one debit
C21_Witness ==
    /\ refused[1] = "Failed to create order"
    /\ Len(orders) = 1
    /\ orders[1].order_type = "buy_now"
    /\ orders[1].payment_status = "paid"
    /\ balance[orders[1].buyer_id] = InitBalance[orders[1].buyer_id] - orders[1].total_amount
    /\ pc[1] = "create_order_commit"
    /\ sess[1].order.order_type = "buy_now"

\* the windows a step turns from open to finalized
Transitioned == {w \in DOMAIN windows : windows[w].status = "open" /\ windows'[w].status = "finalized"}

\* C22: the count a sweep returns (processed_count at its commit) is the
\* number of windows that sweep turned from open to finalized, windows
\* without orders included.
C22_CountIsFinalized ==
    [][SweepCommit(1) => sess[1].processed_count = Cardinality(Transitioned)]_vars

\* C23: the ledger is auditable under any interleaving of create_order,
\* pay_pending_order, sweep and verify_payment requests: in every committed
\* state each vendor's balance is its initial balance plus the amounts of its
\* completed Payments minus the totals of its paid orders.
C23_LedgerAuditable ==
    \A v \in Vendors : balance[v] = InitBalance[v] + CompletedTotal(v) - PaidTotal(v)

\* C24: for any interleaving of two verify_payment requests that carry the
\* same valid confirmation of one pending Payment, the vendor's balance is
\* increased by payment.amount exactly once: with valid confirmations only, a
\* vendor's balance is its initial balance plus the amounts of its completed
\* Payments.
C24_ConcurrentCreditOnce ==
    \A v \in Vendors : balance[v] = InitBalance[v] + CompletedTotal(v)

\* the tiers whose min_quantity does not exceed the quantity
TiersUpTo(ts, q) == {t \in ts : t.min_quantity <= q}

\* C25: when no tier's range contains the quantity but some tier has
\* min_quantity <= quantity (a gap between tiers, or above the highest
\* bounded tier), the resolved price is that of the last tier, in ascending
\* order of min_quantity, whose min_quantity <= quantity; every admitted
\* order of such a quantity carries that price.
C25_GapFallsBackToLastTier ==
    \A i \in DOMAIN orders :
       LET q == orders[i].quantity
           below == TiersUpTo(tiers[1], q)
       IN  ((\A t \in tiers[1] : ~InRange(t, q)) /\ below # {}) =>
              \A t \in below :
                 (\A u \in below : u.min_quantity <= t.min_quantity) =>
                    orders[i].price_per_unit = t.price_per_unit

\* C26: after any sequence of product creation, add, update and delete of
\* pricing tiers, the tiers of every product have pairwise non-overlapping
\* quantity ranges, and each max_quantity, if present, is greater than its
\* min_quantity.
C26_TiersNeverOverlap ==
    \A pr \in Products :
       /\ NonOverlapping(tiers[pr])
       /\ \A t \in tiers[pr] : t.max_quantity = NoMax \/ t.max_quantity > t.min_quantity

\* C27: for any interleaving of create_order requests with sweeps, once a
\* window is finalized no order that references it is pending: each was
\* settled by the finalizing sweep or never admitted.
C27_NoPendingInFinalized ==
    \A i \in DOMAIN orders :
       LET w == orders[i].bulk_order_window_id
       IN  (w # NoWindow /\ windows[w].status = "finalized") =>
              orders[i].payment_status # "pending"

\* window w is open and its window_end_time has passed
ExpiredOpen(w) ==
    /\ w \in DOMAIN windows
    /\ windows[w].status = "open"
    /\ windows[w].window_end_time < now

\* C28: under fair repeated invocation of the sweep every open window whose
\* window_end_time has passed is eventually finalized; no expired window
\* stays open forever.
C28_ExpiredEventuallyFinalized ==
    \A w \in 1..MaxConcWindows :
       ExpiredOpen(w) ~> (w \in DOMAIN windows /\ windows[w].status = "finalized")

\* C29: in every state an order has order_type bulk_order if and only if it
\* references a bulk order window.
C29_BulkIffWindow ==
    \A i \in DOMAIN orders :
       orders[i].order_type = "bulk_order" <=> orders[i].bulk_order_window_id # NoWindow

\* C30: a principal with role vendor passes the check require_profile_write
\* that guards order creation, pay_pending_order, window creation and payment
\* verification: no request of a vendor is refused by it.
C30_VendorPassesRbac ==
    \A p \in Procs : refused[p] # AccessDenied("vendor")
====
